---- MODULE Spec2Model ----
(***************************************************************************)
(* Model of udata-front's resilient page content fetcher and of the        *)
(* reference resolution of show_page (udata_front/views/gouvfr.py), and    *)
(* of its feed summary extractor (udata_front/theme/gouvfr/__init__.py).   *)
(*                                                                         *)
(* Modelling conventions                                                   *)
(*  - Python's None is the value None below; a local variable that was     *)
(*    never assigned holds Unbound, and reading it raises                  *)
(*    UnboundLocalError.                                                   *)
(*  - A URL is the sequence of its path segments; appending ".ext" to a    *)
(*    URL appends the extension as a last segment.                         *)
(*  - The deployment is configured (PAGES_GH_REPO_NAME, WP_ATOM_URL and    *)
(*    DEFAULT_LANGUAGE are set).                                           *)
(*  - cache.memoize(t) stores every non-raising return value for t seconds *)
(*    and a stored entry is a hit while its age is below t; cache.set      *)
(*    without a timeout stores without expiry, as the docstring of         *)
(*    get_page_content_locale states.                                      *)
(*  - Spec serves one page request at a time, SpecConc two at once,        *)
(*    SpecBlog the calls of get_blog_post, SpecShow the loop of show_page  *)
(*    over the front matter of a fetched page.                             *)
(***************************************************************************)
EXTENDS Integers, Sequences, FiniteSets, TLC

VARIABLES
    fresh,      \* memoization store of get_page_content_locale: (slug, locale) -> entry
    fallback,   \* long-term store written by cache.set: cache key -> body or None
    pc,         \* per request process: the statement it is about to execute
    frame,      \* per request process: the locals of get_page_content(_locale)
    results,    \* per request process: what each per-locale call of this request gave
    outcome,    \* per request process: what get_page_content gave its caller
    lastGood,   \* history: (slug, locale) -> body of the latest successful fetch
    succ,       \* history: (slug, locale) -> triple and age of the latest successful resolution
    serving,    \* history: cache key -> the order in which the remote served the bodies in play
    show,       \* show_page: its position, its locals and the tag queries it issued
    blogMemo,   \* memoization store of get_blog_post: lang -> entry
    blogCall    \* the latest call of get_blog_post: argument, attempts, result

pageVars == <<fresh, fallback, pc, frame, results, outcome, lastGood, succ, serving>>
blogVars == <<blogMemo, blogCall>>
showVars == <<show>>
vars == <<fresh, fallback, pc, frame, results, outcome, lastGood, succ, serving,
          blogMemo, blogCall, show>>

-----------------------------------------------------------------------------
(* Values *)

None == "<None>"
Unbound == "<unbound>"

\* Request processes; the sequential specification runs process 1 alone.
Procs == {1, 2}
Main == 1

Slugs == {"faq"}
LangCodes == {"fr"}
Locales == LangCodes \cup {None}
Keys == Slugs \X Locales

\* Body texts the remote can serve (the empty file included).
Bodies == {"", "a", "b"}

PAGE_CACHE_DURATION == 60 * 5

\* Seconds that pass in one step of the clock.
TickSeconds == 150

REPO == "org/pages"
BRANCH == "master"

Resp(code, text) == [exc |-> "none", status |-> code, text |-> text]
Exc(name) == [exc |-> name, status |-> 0, text |-> None]

\* A remote that never answers a request.
Silent == [exc |-> "<silent>", status |-> 0, text |-> None]

\* A call of requests that waits for its answer for ever.
Blocked == [exc |-> "<blocked>", status |-> 0, text |-> None]

\* The timeout argument of a call of requests, as the set of the seconds
\* given: empty when the call names no timeout (timeout=None, the default).
\* requests with a timeout gives up on a silent remote by raising Timeout;
\* without one it waits for ever.
request(timeout, remote) ==
    IF remote = Silent
    THEN IF timeout = {} THEN Blocked ELSE Exc("Timeout")
    ELSE remote

\* requests.head(f"{raw_url}.md"): no timeout.
HEAD_TIMEOUT == {}

\* requests.get(raw_url, timeout=5)
GET_TIMEOUT == {5}

\* What the remote can do with a request: answer with a status and a body,
\* break the connection, or stay silent.
RemoteAnswers ==
    {Resp(200, b) : b \in Bodies}
        \cup {Resp(404, ""), Resp(500, "")}
        \cup {Exc("ConnectionError"), Silent}

\* What requests.head(...) can give: a status, a RequestException, or no
\* return at all (the call sets no timeout, so requests raises no Timeout).
ProbeOutcomes ==
    {request(HEAD_TIMEOUT, a) :
        a \in {Resp(200, ""), Resp(404, ""), Resp(500, ""), Exc("ConnectionError"), Silent}}

\* What requests.get(..., timeout=5) can give.
FetchOutcomes == {request(GET_TIMEOUT, a) : a \in RemoteAnswers}

\* Python truthiness of a content value.
\* Variant: a test for None only.
TruthyNonNull(c) == c /= None

Truthy(c) == c /= None /\ c /= ""

-----------------------------------------------------------------------------
(* Pure functions of views/gouvfr.py *)

\* Variant: the locale in the browsable URL as well.
get_pages_gh_urls_localized(slug, locale) ==
    IF locale /= None
    THEN [raw_url |-> <<"https://raw.githubusercontent.com", REPO, BRANCH, "pages", locale, slug>>,
          gh_url |-> <<"https://github.com", REPO, "blob", BRANCH, "pages", locale, slug>>]
    ELSE [raw_url |-> <<"https://raw.githubusercontent.com", REPO, BRANCH, "pages", slug>>,
          gh_url |-> <<"https://github.com", REPO, "blob", BRANCH, "pages", slug>>]

get_pages_gh_urls(slug, locale) ==
    IF locale /= None
    THEN [raw_url |-> <<"https://raw.githubusercontent.com", REPO, BRANCH, "pages", locale, slug>>,
          gh_url |-> <<"https://github.com", REPO, "blob", BRANCH, "pages", slug>>]
    ELSE [raw_url |-> <<"https://raw.githubusercontent.com", REPO, BRANCH, "pages", slug>>,
          gh_url |-> <<"https://github.com", REPO, "blob", BRANCH, "pages", slug>>]

detect_pages_extension(head) ==
    IF head.status = 200 THEN "md" ELSE "html"

\* Variant: a key that leaves the locale out.
cache_key_no_locale(slug, locale) == <<"pages-content", slug, "default">>

cache_key(slug, locale) ==
    <<"pages-content", slug, IF locale = None THEN "default" ELSE locale>>

CacheKeys == {cache_key(k[1], k[2]) : k \in Keys}

\* if response.status_code == 404
\* Variant: no status is taken for not-found.
is_not_found_never(resp) == FALSE

is_not_found(resp) == resp.status = 404

\* response.raise_for_status(): 4xx and 5xx raise HTTPError.
raise_for_status(resp) == resp.status >= 400

\* The memoization wrapper's test for a usable entry.
\* Variant: an entry that never expires.
memo_hit_no_expiry(entry) == entry.has

memo_hit(entry) == entry.has /\ entry.age < PAGE_CACHE_DURATION

\* The locale chain of get_page_content.
\* Variant: the request locale alone.
locale_chain_no_default(lang) == <<lang>>

locale_chain(lang) == <<lang, None>>

-----------------------------------------------------------------------------
(* Values of theme/gouvfr/__init__.py: HTML text, feed entries, feeds *)

\* An optional value: a dict key that may be missing, a group that may not match.
Some(v) == [some |-> TRUE, v |-> v]
Nothing == [some |-> FALSE, v |-> <<>>]

\* An HTML text is a sequence of tokens: words, white space, opening tags
\* with their attributes in order (slash: the tag is written <... />) and
\* closing tags.  An attribute value and a URL are sequences of pieces, so
\* that the escaped ampersand "&amp;" is a piece of its own.
Word(w) == [t |-> "text", name |-> w, attrs |-> <<>>, slash |-> FALSE]
Space == [t |-> "space", name |-> " ", attrs |-> <<>>, slash |-> FALSE]
Open(n, attrs, slash) == [t |-> "open", name |-> n, attrs |-> attrs, slash |-> slash]
Close(n) == [t |-> "close", name |-> n, attrs |-> <<>>, slash |-> FALSE]
Attr(n, v) == [n |-> n, v |-> v]

Url1 == <<"http://", "a/1.png?w=1", "&amp;", "h=2">>
Url2 == <<"https://", "a/2.png">>
SrcSet1 == <<"a/1.png 1x, a/1.png?x=2", "&amp;", "y 2x">>
Sizes1 == <<"100vw">>

\* <em>Hello</em> between blanks: no image.
TextPlain == <<Space, Open("em", <<>>, FALSE), Word("Hello"), Close("em"), Space>>
\* <p>Hello <img src=".." srcset=".." sizes=".." />world</p>
TextImg ==
    <<Open("p", <<>>, FALSE), Word("Hello"), Space,
      Open("img", <<Attr("src", Url1), Attr("srcset", SrcSet1), Attr("sizes", Sizes1)>>, TRUE),
      Word("world"), Close("p")>>
\* <img srcset=".." alt="x" src=".." />: the src comes after another attribute.
TextSrcsetFirst ==
    <<Open("img", <<Attr("srcset", SrcSet1), Attr("alt", <<"x">>), Attr("src", Url2)>>, TRUE)>>
\* <img src="..">x with no "/>" anywhere.
TextUnclosed == <<Open("img", <<Attr("src", Url2)>>, FALSE), Word("x")>>

ContentTexts == {TextPlain, TextImg, TextSrcsetFirst, TextUnclosed}
SummaryTexts == {TextPlain, TextImg}

Thumb(url) == [url |-> url]
Enclosure(type, href) == [type |-> type, href |-> href]
ThumbUrl1 == <<"http://", "m/t1.jpg">>
ThumbUrl2 == <<"http://", "m/t2.jpg">>
EncUrl1 == <<"http://", "e/1.png">>
EncUrl2 == <<"http://", "e/2.jpg">>
EncPdf == <<"http://", "e/doc.pdf">>

MediaThumbnailLists == {<<>>, <<Thumb(ThumbUrl1), Thumb(ThumbUrl2)>>}
EnclosureLists ==
    {<<>>,
     <<Enclosure("application/pdf", EncPdf)>>,
     <<Enclosure("application/pdf", EncPdf), Enclosure("image/png", EncUrl1),
       Enclosure("image/jpeg", EncUrl2)>>}

\* A feed entry as feedparser stores it: title, link and published are
\* present; content, summary, media_thumbnail and enclosures are optional
\* (a missing list reads as the empty list through post.get(key, [])).
Posts ==
    [title : {"Post"}, link : {<<"https://", "blog/post">>}, published : {"2024-01-02"},
     content : {Nothing} \cup {Some(x) : x \in ContentTexts},
     summary : {Nothing} \cup {Some(x) : x \in SummaryTexts},
     media_thumbnail : MediaThumbnailLists,
     enclosures : EnclosureLists]

NoPost ==
    [title |-> "", link |-> <<>>, published |-> "", content |-> Nothing,
     summary |-> Nothing, media_thumbnail |-> <<>>, enclosures |-> <<>>]

\* What requests.get(feed_url, timeout=WP_TIMEOUT) followed by
\* feedparser.parse gives: an exception of requests, or a feed with entries.
FeedExc(name) == [exc |-> name, entries |-> <<>>]
FeedResp(entries) == [exc |-> "none", entries |-> entries]
\* Two entries of one feed, the newest first.
PostNew ==
    [title |-> "Post", link |-> <<"https://", "blog/post">>, published |-> "2024-01-02",
     content |-> Some(TextImg), summary |-> Nothing,
     media_thumbnail |-> <<>>, enclosures |-> <<>>]
PostOld == [PostNew EXCEPT !.content = Some(TextPlain)]

FeedOutcomes ==
    {FeedExc("Timeout"), FeedExc("ConnectionError"), FeedResp(<<>>)}
        \cup {FeedResp(<<post>>) : post \in Posts}
        \cup {FeedResp(<<PostNew, PostOld>>)}

BlogLangs == {"fr"}
DEFAULT_LANGUAGE == "en"

BLOG_CACHE_DURATION == 50
BlogTickSeconds == 25

FEED_THUMBNAIL_MIMES == {"image/jpeg", "image/png", "image/webp"}

-----------------------------------------------------------------------------
(* Pure functions of theme/gouvfr/__init__.py *)

\* RE_STRIP_TAGS matches every opening or closing tag whose name begins with
\* img, br, p, div, ul, li or ol (so <pre> and <link> as well).
StrippedNames == {"img", "br", "p", "div", "ul", "li", "ol", "pre", "link"}

IsKept(tok) == ~(tok.t \in {"open", "close"} /\ tok.name \in StrippedNames)

RECURSIVE TrimLeft(_)
TrimLeft(text) ==
    IF text /= <<>> /\ Head(text).t = "space" THEN TrimLeft(Tail(text)) ELSE text

RECURSIVE TrimRight(_)
TrimRight(text) ==
    IF text /= <<>> /\ text[Len(text)].t = "space"
    THEN TrimRight(SubSeq(text, 1, Len(text) - 1))
    ELSE text

\* RE_STRIP_TAGS.sub("", summary).strip()
strip_tags(text) == TrimRight(TrimLeft(SelectSeq(text, IsKept)))

\* str.replace("&amp;", "&")
Unescape(v) == [k \in 1..Len(v) |-> IF v[k] = "&amp;" THEN "&" ELSE v[k]]

\* The three attribute alternatives of RE_POST_IMG: src="https?://.+?",
\* srcset=".+?" and sizes=".+?".
IsHttp(v) == Len(v) >= 2 /\ v[1] \in {"http://", "https://"}
Matchable(a) ==
    \/ a.n = "src" /\ IsHttp(a.v)
    \/ a.n \in {"srcset", "sizes"} /\ a.v /= <<>>

\* RE_POST_IMG.search(text), on tokens.  The match starts at the first "<img";
\* the lazy ".*?" runs (over tag ends too, re.S) to the first matchable
\* attribute; the repeated group takes the attributes that follow one another
\* with only white space between, each named group keeping its last value;
\* the final ".*?/>" needs a "/>" after them.
ImgStarts(text) == {i \in 1..Len(text) : text[i].t = "open" /\ text[i].name = "img"}

MatchPositions(text) ==
    LET starts == ImgStarts(text)
    IN IF starts = {} THEN {}
       ELSE LET start == CHOOSE s0 \in starts : \A s \in starts : s0 <= s
                slashes == {c \in start..Len(text) : text[c].t = "open" /\ text[c].slash}
            IN UNION {{<<i, j>> : j \in {j \in 1..Len(text[i].attrs) :
                                              Matchable(text[i].attrs[j])}} :
                         i \in {i \in start..Len(text) :
                                   /\ text[i].t = "open"
                                   /\ \E c \in slashes : c >= i}}

FirstPosition(S) ==
    CHOOSE q \in S : \A r \in S : q[1] < r[1] \/ (q[1] = r[1] /\ q[2] <= r[2])

RECURSIVE RunEnd(_, _)
RunEnd(attrs, j) ==
    IF j < Len(attrs) /\ Matchable(attrs[j + 1]) THEN RunEnd(attrs, j + 1) ELSE j

\* The value a named group holds after the repetition: its last match.
GroupOf(attrs, from, to, name) ==
    LET hits == {j \in from..to : attrs[j].n = name}
    IN IF hits = {} THEN Nothing
       ELSE Some(attrs[CHOOSE j \in hits : \A h \in hits : h <= j].v)

NoMatch == [matched |-> FALSE, src |-> Nothing, srcset |-> Nothing, sizes |-> Nothing]

RE_POST_IMG_search(text) ==
    LET positions == MatchPositions(text)
    IN IF positions = {} THEN NoMatch
       ELSE
         LET q == FirstPosition(positions)
             attrs == text[q[1]].attrs
             to == RunEnd(attrs, q[2])
         IN [matched |-> TRUE,
             src |-> GroupOf(attrs, q[2], to, "src"),
             srcset |-> GroupOf(attrs, q[2], to, "srcset"),
             sizes |-> GroupOf(attrs, q[2], to, "sizes")]

\* post.get("description", None): feedparser reads "description" from the
\* entry's stored summary.
post_description(post) == post.summary

\* post.get("content", [{}])[0].get("value") or description
post_content(post) ==
    IF post.content.some /\ post.content.v /= <<>>
    THEN post.content
    ELSE post_description(post)

\* post.get("summary", content)
post_summary(post) ==
    IF post.summary.some THEN post.summary ELSE post_content(post)

\* dateutil's parse(post.published)
parse_date(published) == <<"datetime", published>>

BlogResult(kind) ==
    [kind |-> kind, title |-> "", link |-> <<>>, date |-> <<>>, summary |-> <<>>,
     image_url |-> Nothing, srcset |-> Nothing, sizes |-> Nothing]

\* The first enclosure whose type is an accepted image type.
image_enclosures(post) ==
    {j \in 1..Len(post.enclosures) : post.enclosures[j].type \in FEED_THUMBNAIL_MIMES}

first_image_enclosure(post) ==
    post.enclosures[CHOOSE j \in image_enclosures(post) :
                        \A h \in image_enclosures(post) : j <= h]

\* Lines 164-181: the blogpost record gets its image keys.
resolve_thumbnail(blogpost, post, content) ==
    IF Len(post.media_thumbnail) > 0
    THEN [blogpost EXCEPT !.image_url = Some(post.media_thumbnail[1].url)]
    ELSE IF image_enclosures(post) /= {}
    THEN [blogpost EXCEPT !.image_url = Some(first_image_enclosure(post).href)]
    ELSE IF ~content.some
    THEN BlogResult("TypeError")
    ELSE LET match == RE_POST_IMG_search(content.v)
         IN IF ~match.matched THEN blogpost
            ELSE IF ~match.src.some THEN BlogResult("AttributeError")
            ELSE [blogpost EXCEPT
                    !.image_url = Some(Unescape(match.src.v)),
                    !.srcset = IF match.srcset.some
                               THEN Some(Unescape(match.srcset.v)) ELSE Nothing,
                    !.sizes = match.sizes]

\* Lines 156-183: the summary record of the feed's first entry.
build_blogpost(post) ==
    LET content == post_content(post)
        summary == post_summary(post)
    IN IF ~summary.some
       THEN BlogResult("TypeError")
       ELSE resolve_thumbnail(
               [BlogResult("record") EXCEPT
                   !.title = post.title, !.link = post.link,
                   !.date = parse_date(post.published),
                   !.summary = strip_tags(summary.v)],
               post, content)

\* A parsed feed, or None when no attempt got a response.
NoFeed == [parsed |-> FALSE, entries |-> <<>>]
Feed(entries) == [parsed |-> TRUE, entries |-> entries]

\* Variant: the test for None without the test for zero entries.
no_entry_only_none(feed) == ~feed.parsed

\* if not feed or len(feed.entries) <= 0: return
no_entry(feed) == ~feed.parsed \/ Len(feed.entries) <= 0

\* What one request of the loop was for and what it gave: the language code,
\* the exception if any, the number of entries and the first of them.
Attempt(code, o) ==
    [code |-> code, exc |-> o.exc, n |-> Len(o.entries),
     first |-> IF Len(o.entries) > 0 THEN o.entries[1] ELSE NoPost]

\* for code in lang, current_app.config["DEFAULT_LANGUAGE"]
\* Variant: the default language before the preferred one.
languages_default_first(lang) == <<DEFAULT_LANGUAGE, lang>>

languages(lang) == <<lang, DEFAULT_LANGUAGE>>

\* The body of get_blog_post(lang) when the two requests give o1 and o2
\* (o2 is asked for only when the loop reaches the second language).
get_blog_post(lang, o1, o2) ==
    LET stop1 == o1.exc = "none" /\ Len(o1.entries) > 0
        feed1 == IF o1.exc = "none" THEN Feed(o1.entries) ELSE NoFeed
        feed == IF stop1 THEN feed1
                ELSE IF o2.exc = "none" THEN Feed(o2.entries) ELSE feed1
        attempts == IF stop1 THEN <<Attempt(languages(lang)[1], o1)>>
                    ELSE <<Attempt(languages(lang)[1], o1), Attempt(languages(lang)[2], o2)>>
    IN IF no_entry(feed)
       THEN [attempts |-> attempts, hasPost |-> FALSE, post |-> NoPost,
             result |-> BlogResult("None")]
       ELSE IF Len(feed.entries) = 0
       THEN [attempts |-> attempts, hasPost |-> FALSE, post |-> NoPost,
             result |-> BlogResult("IndexError")]
       ELSE [attempts |-> attempts, hasPost |-> TRUE, post |-> feed.entries[1],
             result |-> build_blogpost(feed.entries[1])]

\* The outcomes the second request can have; when the first feed has entries
\* the loop breaks, no second request is made and o2 is never read.
SecondOutcomes(o1) ==
    IF o1.exc = "none" /\ Len(o1.entries) > 0 THEN {o1} ELSE FeedOutcomes

\* The memoization wrapper of get_blog_post: an entry younger than the
\* timeout is a hit; a stored None reads as a miss.
\* Variant: a wrapper that never finds an entry.
blog_memo_hit_never(entry) == FALSE

blog_memo_hit(entry) == entry.has /\ entry.age < BLOG_CACHE_DURATION

NoBlogEntry == [has |-> FALSE, val |-> BlogResult("None"), age |-> 0]

NoBlogCall ==
    [lang |-> None, hit |-> FALSE, attempts |-> <<>>, hasPost |-> FALSE,
     post |-> NoPost, result |-> BlogResult("none"), since |-> BLOG_CACHE_DURATION]

-----------------------------------------------------------------------------
(* show_page of views/gouvfr.py: front-matter references, the resource
   repository and the functions that query it *)

\* A front-matter string is the sequence of its characters; a null entry of
\* the YAML list is NullRef.
NullRef == <<None>>
TAG_MARKER == <<"t", "a", "g", "#">>

\* " d1 ": the slug of an object, between blanks.
RefSlug == <<" ", "d", "1", " ">>
\* "id2": the id of an object, the slug of none.
RefId == <<"i", "d", "2">>
\* "id0": a well-formed id that no object has.
RefAbsent == <<"i", "d", "0">>
\* "bad!": not an id the database accepts.
RefBad == <<"b", "a", "d", "!">>
\* " tag#x": a tag marker after a blank.
RefTag == <<" ", "t", "a", "g", "#", "x">>

Refs == {NullRef, RefSlug, RefId, RefAbsent, RefBad, RefTag}

\* The longest front-matter list of datasets and of reuses.
MaxRefs == 3
MaxReuseRefs == 1

SeqsUpTo(S, n) == UNION {[1..m -> S] : m \in 0..n}

\* models = {"reuses": Reuse, "datasets": Dataset}, in the order of the dict.
models == <<"reuses", "datasets">>
ModelKeys == {"reuses", "datasets"}

\* The front matters of a page: page.get(model_key) for each kind (a missing
\* key reads as the empty list).
Pages ==
    {[k \in ModelKeys |-> IF k = "reuses" THEN rs ELSE ds] :
        rs \in SeqsUpTo(Refs, MaxReuseRefs), ds \in SeqsUpTo(Refs, MaxRefs)}

\* The characters of an id the database accepts; any other character makes
\* the query by id raise ValidationError.
IdChars == {"i", "d", "0", "1", "2", "3", "4"}

Obj(name, slug, id, tags, private, created_at) ==
    [name |-> name, slug |-> slug, id |-> id, tags |-> tags,
     private |-> private, created_at |-> created_at]

\* The objects of each model in the database.
Objects(model) ==
    IF model = "datasets"
    THEN {Obj("D1", <<"d", "1">>, <<"i", "d", "1">>, <<TAG_MARKER>>, FALSE, 1),
          Obj("D2", <<"d", "2">>, <<"i", "d", "2">>, <<TAG_MARKER>>, FALSE, 2),
          Obj("D3", <<"d", "3">>, <<"i", "d", "3">>, <<TAG_MARKER>>, TRUE, 3),
          Obj("D4", <<"d", "4">>, <<"i", "d", "4">>, <<TAG_MARKER, TAG_MARKER>>, FALSE, 4)}
    ELSE {Obj("R1", <<"d", "1">>, <<"i", "d", "1">>, <<TAG_MARKER>>, FALSE, 1),
          Obj("R3", <<"d", "3">>, <<"i", "d", "3">>, <<TAG_MARKER>>, FALSE, 3)}

ValidationError == "<ValidationError>"

\* str.strip()
RECURSIVE lstrip(_)
lstrip(r) == IF r /= <<>> /\ Head(r) = " " THEN lstrip(Tail(r)) ELSE r

RECURSIVE rstrip(_)
rstrip(r) == IF r /= <<>> /\ r[Len(r)] = " " THEN rstrip(SubSeq(r, 1, Len(r) - 1)) ELSE r

strip(r) == rstrip(lstrip(r))

\* r[:4]
\* Variant: the whole string.
slice_all(r) == r

slice4(r) == SubSeq(r, 1, IF Len(r) < 4 THEN Len(r) ELSE 4)

\* model.objects.filter(slug=id_or_slug).first()
filter_slug(model, id_or_slug) ==
    IF \E o \in Objects(model) : o.slug = id_or_slug
    THEN (CHOOSE o \in Objects(model) : o.slug = id_or_slug).name
    ELSE None

\* model.objects.filter(id=id_or_slug).first(): raises ValidationError on a
\* malformed id.
filter_id(model, id_or_slug) ==
    IF \E i \in 1..Len(id_or_slug) : id_or_slug[i] \notin IdChars
    THEN ValidationError
    ELSE IF \E o \in Objects(model) : o.id = id_or_slug
    THEN (CHOOSE o \in Objects(model) : o.id = id_or_slug).name
    ELSE None

\* Variant: the query by id without the except clause.
get_object_uncaught(model, id_or_slug) ==
    IF filter_slug(model, id_or_slug) /= None
    THEN filter_slug(model, id_or_slug)
    ELSE filter_id(model, id_or_slug)

get_object(model, id_or_slug) ==
    LET obj == filter_slug(model, id_or_slug)
    IN IF obj /= None THEN obj
       ELSE IF filter_id(model, id_or_slug) = ValidationError THEN obj
       ELSE filter_id(model, id_or_slug)

\* model.objects.visible().filter(tags=tags): the objects that are not
\* private and whose tag list equals the argument (the database's equality
\* on a list field).
visible_with_tags(model, tags) ==
    {o \in Objects(model) : ~o.private /\ o.tags = tags}

\* order_by('-created_at')
RECURSIVE order_by_created_at_desc(_)
order_by_created_at_desc(S) ==
    IF S = {} THEN <<>>
    ELSE LET o == CHOOSE o \in S : \A q \in S : q.created_at <= o.created_at
         IN <<o.name>> \o order_by_created_at_desc(S \ {o})

\* Variant: the oldest first.
get_objects_from_tags_oldest_first(model, tags) ==
    LET found == order_by_created_at_desc(visible_with_tags(model, tags))
    IN [i \in 1..Len(found) |-> found[Len(found) + 1 - i]]

get_objects_from_tags(model, tags) ==
    order_by_created_at_desc(visible_with_tags(model, tags))

\* The locals of show_page, and the tag queries it issued for each kind
\* (argument and result).
ShowIdle ==
    [pc |-> "idle", page |-> [k \in ModelKeys |-> <<>>], k |-> 0, i |-> 0,
     tags |-> <<>>, data |-> [k \in ModelKeys |-> <<>>],
     queries |-> [k \in ModelKeys |-> <<>>]]

-----------------------------------------------------------------------------
(* State *)

NoEntry == [has |-> FALSE, val |-> <<None, <<>>, Unbound>>, age |-> 0]
Entry(triple) == [has |-> TRUE, val |-> triple, age |-> 0]

NoFrame ==
    [slug |-> None, lang |-> None, idx |-> 0, raw_url |-> <<>>, gh_url |-> <<>>,
     extension |-> Unbound, content |-> None, response |-> None,
     how |-> "none", reqs |-> 0, good |-> None, status |-> 0, fbreads |-> 0]

\* Per cache key: the processes that hold a fetched body not yet stored, in
\* the order the remote served them; those of them whose body is older than
\* the stored one; whether the latest cache.set put an older body over a
\* newer, different one.
NoServing == [pending |-> <<>>, older |-> {}, regressed |-> FALSE]

NoOutcome == [kind |-> "none", content |-> None, gh_url |-> <<>>, extension |-> Unbound]

Locale(p) == locale_chain(frame[p].lang)[frame[p].idx]
Key(p) == <<frame[p].slug, Locale(p)>>

Init ==
    /\ fresh = [k \in Keys |-> NoEntry]
    /\ fallback = [c \in CacheKeys |-> None]
    /\ pc = [p \in Procs |-> "idle"]
    /\ frame = [p \in Procs |-> NoFrame]
    /\ results = [p \in Procs |-> <<>>]
    /\ outcome = [p \in Procs |-> NoOutcome]
    /\ lastGood = [k \in Keys |-> None]
    /\ succ = [k \in Keys |-> NoEntry]
    /\ serving = [c \in CacheKeys |-> NoServing]
    /\ show = ShowIdle
    /\ blogMemo = [l \in BlogLangs |-> NoBlogEntry]
    /\ blogCall = NoBlogCall

\* A sequence of processes without process p.
Without(seq, p) == SelectSeq(seq, LAMBDA q : q /= p)

\* The processes that stand before p in a sequence of processes.
ServedBefore(seq, p) ==
    {seq[i] : i \in {i \in 1..Len(seq) : \E j \in (i + 1)..Len(seq) : seq[j] = p}}

\* What one per-locale call gave, as get_page_content sees it.
Result(p, kind, triple) ==
    [locale |-> Locale(p), kind |-> kind, content |-> triple[1], gh_url |-> triple[2],
     extension |-> triple[3], how |-> frame[p].how, reqs |-> frame[p].reqs,
     good |-> frame[p].good, status |-> frame[p].status, fbreads |-> frame[p].fbreads]

-----------------------------------------------------------------------------
(* get_page_content, statement by statement *)

\* show_page calls get_page_content(slug) under the request's g.lang_code.
Start(p) ==
    /\ pc[p] \in {"idle", "done"}
    /\ UNCHANGED <<blogVars, showVars>>
    /\ \E s \in Slugs, l \in LangCodes :
          frame' = [frame EXCEPT ![p] = [NoFrame EXCEPT !.slug = s, !.lang = l, !.idx = 1]]
    /\ results' = [results EXCEPT ![p] = <<>>]
    /\ outcome' = [outcome EXCEPT ![p] = NoOutcome]
    /\ pc' = [pc EXCEPT ![p] = "call"]
    /\ UNCHANGED <<fresh, fallback, lastGood, succ, serving>>

\* get_page_content_locale(slug, locale) through its memoization wrapper: a hit
\* returns the stored triple; a miss enters the body (cache key and URLs).
Call(p) ==
    /\ pc[p] = "call"
    /\ UNCHANGED <<blogVars, showVars>>
    /\ IF memo_hit(fresh[Key(p)])
       THEN LET f == [frame[p] EXCEPT !.content = fresh[Key(p)].val[1],
                                      !.gh_url = fresh[Key(p)].val[2],
                                      !.extension = fresh[Key(p)].val[3],
                                      !.how = "memo", !.reqs = 0,
                                      !.good = lastGood[Key(p)],
                                      !.status = 0, !.fbreads = 0]
            IN /\ frame' = [frame EXCEPT ![p] = f]
               /\ results' = [results EXCEPT ![p] =
                     Append(@, [locale |-> Locale(p), kind |-> "triple",
                                content |-> f.content, gh_url |-> f.gh_url,
                                extension |-> f.extension, how |-> "memo",
                                reqs |-> 0, good |-> f.good,
                                status |-> 0, fbreads |-> 0])]
               /\ pc' = [pc EXCEPT ![p] = "check"]
       ELSE LET urls == get_pages_gh_urls(frame[p].slug, Locale(p))
            IN /\ frame' = [frame EXCEPT ![p] =
                     [@ EXCEPT !.raw_url = urls.raw_url, !.gh_url = urls.gh_url,
                               !.extension = Unbound, !.content = None,
                               !.response = None, !.how = "none", !.reqs = 0,
                               !.good = lastGood[Key(p)],
                               !.status = 0, !.fbreads = 0]]
               /\ results' = results
               /\ pc' = [pc EXCEPT ![p] = "probe"]
    /\ UNCHANGED <<fresh, fallback, outcome, lastGood, succ, serving>>

\* extension = detect_pages_extension(raw_url), then both URLs get the extension.
Probe(p) ==
    /\ pc[p] = "probe"
    /\ UNCHANGED <<blogVars, showVars>>
    /\ \E head \in ProbeOutcomes :
          IF head = Blocked
          THEN /\ frame' = [frame EXCEPT ![p] = [@ EXCEPT !.reqs = @ + 1]]
               /\ pc' = [pc EXCEPT ![p] = "blocked"]
          ELSE IF head.exc /= "none"
          THEN /\ frame' = [frame EXCEPT ![p] =
                     [@ EXCEPT !.how = "probe-exc", !.reqs = @ + 1]]
               /\ pc' = [pc EXCEPT ![p] = "except"]
          ELSE LET ext == detect_pages_extension(head)
               IN /\ frame' = [frame EXCEPT ![p] =
                        [@ EXCEPT !.extension = ext,
                                  !.raw_url = Append(@, ext),
                                  !.gh_url = Append(@, ext),
                                  !.reqs = @ + 1]]
                  /\ pc' = [pc EXCEPT ![p] = "fetch"]
    /\ UNCHANGED <<fresh, fallback, results, outcome, lastGood, succ, serving>>

\* response = requests.get(raw_url, timeout=5); 404 returns at once;
\* raise_for_status() turns the other error statuses into an exception.
Fetch(p) ==
    /\ pc[p] = "fetch"
    /\ UNCHANGED <<blogVars, showVars>>
    /\ \E resp \in FetchOutcomes :
          IF resp.exc /= "none"
          THEN /\ frame' = [frame EXCEPT ![p] =
                     [@ EXCEPT !.how = "fetch-exc", !.reqs = @ + 1]]
               /\ pc' = [pc EXCEPT ![p] = "except"]
               /\ serving' = serving
          ELSE IF is_not_found(resp)
          THEN /\ frame' = [frame EXCEPT ![p] =
                     [@ EXCEPT !.how = "404", !.content = None, !.reqs = @ + 1,
                               !.status = resp.status]]
               /\ pc' = [pc EXCEPT ![p] = "return"]
               /\ serving' = serving
          ELSE IF raise_for_status(resp)
          THEN /\ frame' = [frame EXCEPT ![p] =
                     [@ EXCEPT !.how = "fetch-exc", !.reqs = @ + 1,
                               !.status = resp.status]]
               /\ pc' = [pc EXCEPT ![p] = "except"]
               /\ serving' = serving
          ELSE /\ frame' = [frame EXCEPT ![p] =
                     [@ EXCEPT !.how = "200", !.response = resp.text, !.reqs = @ + 1,
                               !.status = resp.status]]
               /\ pc' = [pc EXCEPT ![p] = "else"]
               /\ serving' = [serving EXCEPT
                     ![cache_key(frame[p].slug, Locale(p))].pending = Append(@, p)]
    /\ UNCHANGED <<fresh, fallback, results, outcome, lastGood, succ>>

\* except RequestException: content = cache.get(cache_key)
Except(p) ==
    /\ pc[p] = "except"
    /\ UNCHANGED <<blogVars, showVars>>
    /\ frame' = [frame EXCEPT ![p] =
          [@ EXCEPT !.content = fallback[cache_key(frame[p].slug, Locale(p))],
                    !.fbreads = @ + 1]]
    /\ pc' = [pc EXCEPT ![p] = "return"]
    /\ UNCHANGED <<fresh, fallback, results, outcome, lastGood, succ, serving>>

\* else: content = response.text; cache.set(cache_key, content)
Else(p) ==
    /\ pc[p] = "else"
    /\ UNCHANGED <<blogVars, showVars>>
    /\ frame' = [frame EXCEPT ![p] = [@ EXCEPT !.content = frame[p].response]]
    /\ fallback' = [fallback EXCEPT ![cache_key(frame[p].slug, Locale(p))] = frame[p].response]
    /\ lastGood' = [lastGood EXCEPT ![Key(p)] = frame[p].response]
    /\ serving' = [serving EXCEPT ![cache_key(frame[p].slug, Locale(p))] =
          [pending |-> Without(@.pending, p),
           older |-> ServedBefore(@.pending, p),
           regressed |-> p \in @.older
                         /\ fallback[cache_key(frame[p].slug, Locale(p))] /= frame[p].response]]
    /\ pc' = [pc EXCEPT ![p] = "return"]
    /\ UNCHANGED <<fresh, results, outcome, succ>>

\* return content, gh_url, extension: reading the never-assigned extension
\* raises UnboundLocalError, which nothing catches; otherwise the wrapper
\* memoizes the triple for PAGE_CACHE_DURATION seconds.
Return(p) ==
    /\ pc[p] = "return"
    /\ UNCHANGED <<blogVars, showVars>>
    /\ IF frame[p].extension = Unbound
       THEN /\ results' = [results EXCEPT ![p] =
                  Append(@, Result(p, "UnboundLocalError", <<None, <<>>, Unbound>>))]
            /\ outcome' = [outcome EXCEPT ![p] =
                  [NoOutcome EXCEPT !.kind = "UnboundLocalError"]]
            /\ pc' = [pc EXCEPT ![p] = "done"]
            /\ UNCHANGED <<fresh, succ>>
       ELSE LET rv == <<frame[p].content, frame[p].gh_url, frame[p].extension>>
            IN /\ results' = [results EXCEPT ![p] = Append(@, Result(p, "triple", rv))]
               /\ fresh' = [fresh EXCEPT ![Key(p)] = Entry(rv)]
               /\ succ' = IF frame[p].how = "200"
                          THEN [succ EXCEPT ![Key(p)] = Entry(rv)]
                          ELSE succ
               /\ outcome' = outcome
               /\ pc' = [pc EXCEPT ![p] = "check"]
    /\ UNCHANGED <<fallback, frame, lastGood, serving>>

\* if content: break, else the next locale; the for-else aborts with 404.
Check(p) ==
    /\ pc[p] = "check"
    /\ UNCHANGED <<blogVars, showVars>>
    /\ IF Truthy(frame[p].content)
       THEN /\ outcome' = [outcome EXCEPT ![p] =
                  [kind |-> "triple", content |-> frame[p].content,
                   gh_url |-> frame[p].gh_url, extension |-> frame[p].extension]]
            /\ pc' = [pc EXCEPT ![p] = "done"]
            /\ frame' = frame
       ELSE IF frame[p].idx < Len(locale_chain(frame[p].lang))
       THEN /\ frame' = [frame EXCEPT ![p] = [@ EXCEPT !.idx = @ + 1]]
            /\ pc' = [pc EXCEPT ![p] = "call"]
            /\ outcome' = outcome
       ELSE /\ outcome' = [outcome EXCEPT ![p] = [NoOutcome EXCEPT !.kind = "NotFound"]]
            /\ pc' = [pc EXCEPT ![p] = "done"]
            /\ frame' = frame
    /\ UNCHANGED <<fresh, fallback, results, lastGood, succ, serving>>

\* Time passes: memoized entries age (an age at the duration is expired for good).
Older(e) ==
    IF e.has /\ e.age < PAGE_CACHE_DURATION
    THEN [e EXCEPT !.age = IF @ + TickSeconds > PAGE_CACHE_DURATION
                           THEN PAGE_CACHE_DURATION ELSE @ + TickSeconds]
    ELSE e

Tick ==
    /\ \E k \in Keys : memo_hit(fresh[k]) \/ memo_hit(succ[k])
    /\ UNCHANGED <<blogVars, showVars>>
    /\ fresh' = [k \in Keys |-> Older(fresh[k])]
    /\ succ' = [k \in Keys |-> Older(succ[k])]
    /\ UNCHANGED <<fallback, pc, frame, results, outcome, lastGood, serving>>

Step(p) ==
    \/ Start(p)
    \/ Call(p)
    \/ Probe(p)
    \/ Fetch(p)
    \/ Except(p)
    \/ Else(p)
    \/ Return(p)
    \/ Check(p)

Next == Step(Main) \/ Tick

Spec == Init /\ [][Next]_vars

\* Requests served concurrently: the statements of the two request processes
\* interleave; cache.get and cache.set are atomic, each within one statement.
\* Each process serves one request.
NextConc == \E p \in Procs : pc[p] /= "done" /\ Step(p)

SpecConc == Init /\ [][NextConc]_vars

-----------------------------------------------------------------------------
(* get_blog_post *)

\* home_context calls get_blog_post(g.lang_code) through cache.memoize(50).
GetBlogPost ==
    /\ \E lang \in BlogLangs :
          IF blog_memo_hit(blogMemo[lang])
          THEN /\ blogCall' = [NoBlogCall EXCEPT !.lang = lang, !.hit = TRUE,
                                                 !.result = blogMemo[lang].val,
                                                 !.since = blogCall.since]
               /\ blogMemo' = blogMemo
          ELSE \E o1 \in FeedOutcomes : \E o2 \in SecondOutcomes(o1) :
                  LET r == get_blog_post(lang, o1, o2)
                  IN /\ blogCall' = [lang |-> lang, hit |-> FALSE, attempts |-> r.attempts,
                                     hasPost |-> r.hasPost, post |-> r.post,
                                     result |-> r.result, since |-> 0]
                     /\ blogMemo' = IF r.result.kind = "record"
                                    THEN [blogMemo EXCEPT ![lang] =
                                            [has |-> TRUE, val |-> r.result, age |-> 0]]
                                    ELSE blogMemo
    /\ UNCHANGED <<pageVars, showVars>>

\* Time passes: a memoized entry ages, and one that reaches the timeout is
\* gone from the cache.
BlogOlder(e) ==
    IF e.has /\ e.age + BlogTickSeconds < BLOG_CACHE_DURATION
    THEN [e EXCEPT !.age = @ + BlogTickSeconds]
    ELSE NoBlogEntry

BlogTick ==
    /\ \/ \E l \in BlogLangs : blog_memo_hit(blogMemo[l])
       \/ blogCall.since < BLOG_CACHE_DURATION
    /\ blogMemo' = [l \in BlogLangs |-> BlogOlder(blogMemo[l])]
    /\ blogCall' = [blogCall EXCEPT !.since =
          IF @ + BlogTickSeconds > BLOG_CACHE_DURATION
          THEN BLOG_CACHE_DURATION ELSE @ + BlogTickSeconds]
    /\ UNCHANGED <<pageVars, showVars>>

NextBlog == GetBlogPost \/ BlogTick

SpecBlog == Init /\ [][NextBlog]_vars

-----------------------------------------------------------------------------
(* show_page, statement by statement *)

\* Lines 137-144: the content is there, its front matter is parsed, data is
\* empty and the loop over the models starts with the first kind.
ShowStart ==
    /\ show.pc = "idle"
    /\ \E page \in Pages :
          show' = [ShowIdle EXCEPT !.pc = "loop", !.page = page, !.k = 1, !.i = 1]
    /\ UNCHANGED <<pageVars, blogVars>>

\* Lines 145-154: one entry of page.get(model_key) or [].
ShowRef ==
    /\ show.pc = "loop"
    /\ show.i <= Len(show.page[models[show.k]])
    /\ LET model_key == models[show.k]
           entry == show.page[model_key][show.i]
           r == strip(entry)
       IN IF entry = NullRef
          THEN show' = [show EXCEPT !.i = @ + 1]
          ELSE IF slice4(r) = TAG_MARKER
          THEN show' = [show EXCEPT !.i = @ + 1, !.tags = Append(@, slice4(r))]
          ELSE LET res == get_object(model_key, r)
               IN IF res = ValidationError
                  THEN show' = [show EXCEPT !.pc = "ValidationError"]
                  ELSE IF res /= None
                  THEN show' = [show EXCEPT !.i = @ + 1,
                                            !.data[model_key] = Append(@, res)]
                  ELSE show' = [show EXCEPT !.i = @ + 1]
    /\ UNCHANGED <<pageVars, blogVars>>

\* Lines 155-156 after the last entry of a kind, then the next kind with
\* tags = [] (line 144) or the end of the loop over the models.
ShowTags ==
    /\ show.pc = "loop"
    /\ show.i > Len(show.page[models[show.k]])
    /\ LET model_key == models[show.k]
           found == get_objects_from_tags(model_key, show.tags)
           after == IF Len(show.tags) > 0
                    THEN [show EXCEPT
                            !.data[model_key] = @ \o found,
                            !.queries[model_key] =
                                Append(@, [tags |-> show.tags, found |-> found])]
                    ELSE show
       IN show' = IF show.k < Len(models)
                  THEN [after EXCEPT !.k = @ + 1, !.i = 1, !.tags = <<>>]
                  ELSE [after EXCEPT !.pc = "render"]
    /\ UNCHANGED <<pageVars, blogVars>>

\* Lines 158-165: theme.render("page.html", ..., reuses=data["reuses"],
\* datasets=data["datasets"], ...).
ShowRender ==
    /\ show.pc = "render"
    /\ show' = [show EXCEPT !.pc = "rendered"]
    /\ UNCHANGED <<pageVars, blogVars>>

\* show_page returns the rendered page; its locals are gone.
ShowReturn ==
    /\ show.pc = "rendered"
    /\ show' = ShowIdle
    /\ UNCHANGED <<pageVars, blogVars>>

NextShow == ShowStart \/ ShowRef \/ ShowTags \/ ShowRender \/ ShowReturn

SpecShow == Init /\ [][NextShow]_vars

-----------------------------------------------------------------------------
(* Properties of the page content fetcher *)

LastResult(p) == results[p][Len(results[p])]
TripleOf(r) == <<r.content, r.gh_url, r.extension>>
OutcomeTriple(p) == <<outcome[p].content, outcome[p].gh_url, outcome[p].extension>>
NonEmpty(c) == c /= None /\ c /= ""

\* C1: a per-locale resolution that ran its body (the memoized entry had
\* expired) and met a remote failure other than not-found, for a key whose
\* latest successfully fetched body is B, returns B as content.
C1_StaleServing ==
    \A p \in Procs : \A i \in 1..Len(results[p]) :
        LET r == results[p][i]
        IN (r.how \in {"probe-exc", "fetch-exc"} /\ r.good /= None)
              => (r.kind = "triple" /\ r.content = r.good)

\* C2: whatever the probe and the body fetch give, every per-locale call
\* returns a triple and get_page_content ends with a triple or with the
\* not-found outcome; no other exception reaches the caller.
C2_NoExceptionEscapes ==
    \A p \in Procs :
        /\ \A i \in 1..Len(results[p]) : results[p][i].kind = "triple"
        /\ pc[p] = "done" => outcome[p].kind \in {"triple", "NotFound"}

\* C6: when the resolution for the request locale ended with the remote's
\* not-found answer, the unlocalized resolution is attempted as well, and
\* not-found is surfaced only after both locales of the chain were tried.
C6_UnlocalizedStillTried ==
    \A p \in Procs :
        pc[p] = "done" =>
            /\ (Len(results[p]) >= 1 /\ results[p][1].how = "404")
                  => (/\ Len(results[p]) = 2
                      /\ results[p][1].locale = frame[p].lang
                      /\ results[p][2].locale = None)
            /\ outcome[p].kind = "NotFound"
                  => (/\ Len(results[p]) = 2
                      /\ results[p][1].locale = frame[p].lang
                      /\ results[p][2].locale = None)

C6_Witness ==
    \E p \in Procs :
        /\ pc[p] = "done"
        /\ Len(results[p]) = 2
        /\ results[p][1].how = "404"
        /\ results[p][2].how = "200"
        /\ outcome[p].kind = "triple"
        /\ outcome[p].content = results[p][2].content

\* C7: every outcome of get_page_content is either the not-found outcome or
\* a triple whose content is non-null and is a body that a successful fetch
\* delivered (directly, memoized, or through the fallback tier).
C7_ContentOrNotFound ==
    \A p \in Procs :
        pc[p] = "done" =>
            \/ outcome[p].kind = "NotFound"
            \/ /\ outcome[p].kind = "triple"
               /\ outcome[p].content /= None
               /\ outcome[p].content \in Bodies

\* C8 as stated: the locales are tried in the order [request locale, none],
\* the triple of the first locale whose resolution yields non-null content is
\* returned, and not-found is surfaced only if every locale yields null.
C8_FirstNonNull ==
    \A p \in Procs :
        pc[p] = "done" =>
            LET rs == results[p]
            IN /\ \A i \in 1..Len(rs) : rs[i].locale = <<frame[p].lang, None>>[i]
               /\ \A i \in 1..Len(rs) :
                     (rs[i].kind = "triple" /\ rs[i].content /= None)
                        => (/\ i = Len(rs)
                            /\ outcome[p].kind = "triple"
                            /\ OutcomeTriple(p) = TripleOf(rs[i]))
               /\ outcome[p].kind = "triple"
                     => (/\ LastResult(p).content /= None
                         /\ OutcomeTriple(p) = TripleOf(LastResult(p)))
               /\ outcome[p].kind = "NotFound"
                     => (Len(rs) = 2 /\ \A i \in 1..2 : rs[i].content = None)

\* C8 amended: the same with "non-null and non-empty" for "non-null": the
\* triple of the first locale whose resolution returns non-empty content is
\* returned, and not-found is surfaced exactly when every locale of the chain
\* returned null or empty content.
C8_FirstNonEmpty ==
    \A p \in Procs :
        pc[p] = "done" =>
            LET rs == results[p]
            IN /\ \A i \in 1..Len(rs) : rs[i].locale = <<frame[p].lang, None>>[i]
               /\ \A i \in 1..Len(rs) :
                     (rs[i].kind = "triple" /\ NonEmpty(rs[i].content))
                        => (/\ i = Len(rs)
                            /\ outcome[p].kind = "triple"
                            /\ OutcomeTriple(p) = TripleOf(rs[i]))
               /\ outcome[p].kind = "triple"
                     => (/\ NonEmpty(LastResult(p).content)
                         /\ OutcomeTriple(p) = TripleOf(LastResult(p)))
               /\ outcome[p].kind = "NotFound"
                     <=> (/\ Len(rs) = 2
                          /\ \A i \in 1..2 :
                                rs[i].kind = "triple" /\ ~NonEmpty(rs[i].content))

C8_Witness ==
    \E p \in Procs :
        /\ pc[p] = "done"
        /\ Len(results[p]) = 2
        /\ results[p][1].how = "200"
        /\ results[p][1].content = ""
        /\ results[p][2].content = "b"
        /\ outcome[p].kind = "triple"
        /\ outcome[p].content = "b"
        /\ outcome[p].extension = results[p][2].extension

\* C9: once a resolution of a key has fetched the body and returned, every
\* call for that key made less than PAGE_CACHE_DURATION seconds later returns
\* that same triple without any remote request; the first call made after
\* that issues a remote request again.
C9_FreshTier ==
    [][\A p \in Procs :
          /\ (pc[p] = "call" /\ pc'[p] /= "call") =>
                LET k == Key(p)
                IN /\ (succ[k].has /\ succ[k].age < PAGE_CACHE_DURATION)
                        => (/\ pc'[p] = "check"
                            /\ frame'[p].reqs = 0
                            /\ LastResult(p)'.how = "memo"
                            /\ LastResult(p)'.reqs = 0
                            /\ TripleOf(LastResult(p)') = succ[k].val)
                   /\ (succ[k].has /\ succ[k].age >= PAGE_CACHE_DURATION
                          /\ fresh[k] = succ[k])
                        => pc'[p] = "probe"
          /\ (pc[p] = "probe" /\ pc'[p] /= "probe") => frame'[p].reqs = 1
      ]_vars

C9_Witness ==
    \E p \in Procs :
        /\ pc[p] = "check"
        /\ LastResult(p).how = "memo"
        /\ LastResult(p).content = "a"
        /\ succ[Key(p)].has
        /\ succ[Key(p)].age > 0
        /\ succ[Key(p)].age < PAGE_CACHE_DURATION

\* C10: the fallback-tier entry of a key changes only in the step in which a
\* body fetch for exactly that key has succeeded, and then holds the fetched
\* body; every other step (not-found, failure, memoized hit, another key's
\* resolution, the clock) leaves it as it was.
C10_FallbackFrame ==
    [][\A s \in Slugs, l \in Locales :
          LET ck == cache_key(s, l)
          IN /\ fallback'[ck] /= fallback[ck] =>
                   \E p \in Procs :
                      /\ pc[p] = "else"
                      /\ frame[p].how = "200"
                      /\ frame[p].slug = s
                      /\ Locale(p) = l
                      /\ fallback'[ck] = frame[p].response
             /\ \A p \in Procs :
                   (pc[p] = "else" /\ pc'[p] /= "else" /\ frame[p].slug = s /\ Locale(p) = l)
                      => fallback'[ck] = frame[p].response
      ]_vars

C10_Witness ==
    \E p \in Procs :
        /\ pc[p] = "return"
        /\ frame[p].how = "200"
        /\ Locale(p) = None
        /\ fallback[cache_key(frame[p].slug, None)] = "b"
        /\ fallback[cache_key(frame[p].slug, frame[p].lang)] = "a"

\* C11: a per-locale resolution that ran its body reads the fallback tier
\* exactly when its attempt failed with a transport or status error other
\* than not-found; after a success or a not-found answer it did not read it,
\* and a not-found answer gives null content whatever the fallback tier holds.
C11_FallbackReadOnlyOnFailure ==
    \A p \in Procs : \A i \in 1..Len(results[p]) :
        LET r == results[p][i]
        IN r.how /= "memo"
              => /\ r.fbreads > 0 <=> r.status \notin {200, 404}
                 /\ r.status = 404 => r.content = None

C11_Witness ==
    \E p \in Procs :
        /\ pc[p] = "check"
        /\ LastResult(p).status = 404
        /\ LastResult(p).content = None
        /\ LastResult(p).fbreads = 0
        /\ fallback[cache_key(frame[p].slug, Locale(p))] = "a"

\* A URL with a path segment that is a language code.
HasLocaleSegment(url) == \E i \in 1..Len(url) : url[i] \in LangCodes

\* C12 (as stated): whatever the locale argument, get_pages_gh_urls returns
\* the same raw_url and the same gh_url, and neither holds a locale segment.
C12_LocaleIndependent ==
    \A p \in Procs :
        pc[p] = "probe"
           => /\ \A l \in Locales :
                    /\ get_pages_gh_urls(frame[p].slug, l).raw_url = frame[p].raw_url
                    /\ get_pages_gh_urls(frame[p].slug, l).gh_url = frame[p].gh_url
              /\ ~HasLocaleSegment(frame[p].raw_url)
              /\ ~HasLocaleSegment(frame[p].gh_url)

\* C12 (amended): the gh_url is the same for every locale argument and holds
\* no locale segment; the raw_url holds the locale as the segment before the
\* slug when a locale is given, and no locale segment when none is given.
C12_GhUrlLocaleIndependent ==
    \A p \in Procs :
        pc[p] = "probe"
           => /\ \A l \in Locales :
                    get_pages_gh_urls(frame[p].slug, l).gh_url = frame[p].gh_url
              /\ ~HasLocaleSegment(frame[p].gh_url)
              /\ HasLocaleSegment(frame[p].raw_url) <=> Locale(p) /= None
              /\ Locale(p) /= None
                    => /\ frame[p].raw_url[Len(frame[p].raw_url) - 1] = Locale(p)
                       /\ frame[p].raw_url[Len(frame[p].raw_url)] = frame[p].slug

C12_Witness ==
    \E p \in Procs :
        /\ pc[p] = "probe"
        /\ Locale(p) = "fr"
        /\ frame[p].raw_url /= get_pages_gh_urls(frame[p].slug, None).raw_url
        /\ frame[p].gh_url = get_pages_gh_urls(frame[p].slug, None).gh_url

\* C17: no call of get_page_content waits for ever on a remote that never
\* answers: every remote call it makes, the extension probe as well as the
\* body fetch, gives up after its own timeout.
C17_NoCallWaitsForEver ==
    \A p \in Procs : pc[p] /= "blocked"

\* C18: whatever the interleaving of concurrent resolutions of one key, no
\* cache.set puts over the stored fallback body a different body that the
\* remote served before the stored one.
C18_NeverOlderOverNewer ==
    \A c \in CacheKeys : ~serving[c].regressed

\* C19: once a per-locale resolution has returned null content because of a
\* 404 answer, the memoization tier holds no usable entry for its key, so
\* the next call for that key runs the body again.
C19_NotFoundNotCached ==
    \A p \in Procs :
        (pc[p] = "check" /\ LastResult(p).how /= "memo" /\ LastResult(p).status = 404)
            => ~memo_hit(fresh[Key(p)])

-----------------------------------------------------------------------------
(* Properties of the feed summary extractor *)

FailedOrEmpty(a) == a.exc /= "none" \/ a.n = 0

\* C3: when the call ran its body and every feed attempt it made either
\* failed (timeout or other request error) or gave a feed with zero entries,
\* both languages were tried, preferred first, and get_blog_post returned
\* none without raising.
C3_NoneWhenBothFeedsFail ==
    (/\ blogCall.lang /= None
     /\ ~blogCall.hit
     /\ \A i \in 1..Len(blogCall.attempts) : FailedOrEmpty(blogCall.attempts[i]))
        => /\ Len(blogCall.attempts) = 2
           /\ blogCall.attempts[1].code = blogCall.lang
           /\ blogCall.attempts[2].code = DEFAULT_LANGUAGE
           /\ blogCall.result.kind = "None"

C3_Witness ==
    /\ blogCall.lang = "fr"
    /\ ~blogCall.hit
    /\ Len(blogCall.attempts) = 2
    /\ blogCall.attempts[1].exc = "Timeout"
    /\ blogCall.attempts[2].exc = "none"
    /\ blogCall.attempts[2].n = 0
    /\ blogCall.result.kind = "None"

\* C4: whichever of the optional fields content, description/summary,
\* media-thumbnail list and enclosure list the first feed entry has,
\* get_blog_post returns a summary record and does not raise.
C4_AlwaysARecord ==
    (blogCall.hasPost /\ ~blogCall.hit) => blogCall.result.kind = "record"

\* The first <img> of a text and its src attribute.
FirstImgSrc(text) ==
    LET imgs == {i \in 1..Len(text) : text[i].t = "open" /\ text[i].name = "img"}
    IN IF imgs = {} THEN Nothing
       ELSE LET img == text[CHOOSE i \in imgs : \A h \in imgs : i <= h]
                srcs == {j \in 1..Len(img.attrs) : img.attrs[j].n = "src"}
            IN IF srcs = {} THEN Nothing
               ELSE Some([k \in 1..Len(img.attrs[CHOOSE j \in srcs : \A h \in srcs : j <= h].v) |->
                            LET piece == img.attrs[CHOOSE j \in srcs : \A h \in srcs : j <= h].v[k]
                            IN IF piece = "&amp;" THEN "&" ELSE piece])

\* C5: for an entry that has a text (content, or else description), the
\* record's image_url is the first media-thumbnail's URL if there is one;
\* otherwise the URL of the first enclosure of type image/jpeg, image/png or
\* image/webp if there is one; otherwise the src of the first inline image of
\* the content/description text; otherwise it is absent.
C5_ThumbnailPriority ==
    LET post == blogCall.post
        text == IF post.content.some /\ post.content.v /= <<>>
                THEN post.content.v ELSE post.summary.v
        encs == {j \in 1..Len(post.enclosures) :
                    post.enclosures[j].type \in {"image/jpeg", "image/png", "image/webp"}}
    IN (blogCall.hasPost /\ ~blogCall.hit /\ (post.content.some \/ post.summary.some))
          => /\ blogCall.result.kind = "record"
             /\ blogCall.result.image_url =
                   IF Len(post.media_thumbnail) > 0
                   THEN Some(post.media_thumbnail[1].url)
                   ELSE IF encs /= {}
                   THEN Some(post.enclosures[CHOOSE j \in encs : \A h \in encs : j <= h].href)
                   ELSE FirstImgSrc(text)

\* C13: a call that runs its body requests the preferred-language feed
\* first; it requests the default-language feed next exactly when the first
\* attempt failed or gave zero entries, and makes no other request; the
\* summary is built from the first entry of the preferred feed when that feed
\* has an entry, otherwise from the first entry of the default-language feed.
C13_PreferredThenDefault ==
    (blogCall.lang /= None /\ ~blogCall.hit)
        => LET a == blogCall.attempts
           IN /\ Len(a) \in {1, 2}
              /\ a[1].code = blogCall.lang
              /\ Len(a) = 2 <=> FailedOrEmpty(a[1])
              /\ Len(a) = 2 => a[2].code = DEFAULT_LANGUAGE
              /\ ~FailedOrEmpty(a[1])
                    => /\ blogCall.hasPost
                       /\ blogCall.post = a[1].first
                       /\ blogCall.result = build_blogpost(a[1].first)
              /\ (FailedOrEmpty(a[1]) /\ ~FailedOrEmpty(a[2]))
                    => /\ blogCall.hasPost
                       /\ blogCall.post = a[2].first
                       /\ blogCall.result = build_blogpost(a[2].first)

C13_Witness ==
    /\ blogCall.lang = "fr"
    /\ ~blogCall.hit
    /\ Len(blogCall.attempts) = 2
    /\ blogCall.attempts[1].exc = "none"
    /\ blogCall.attempts[1].n = 0
    /\ blogCall.attempts[2].code = DEFAULT_LANGUAGE
    /\ blogCall.attempts[2].n = 2
    /\ blogCall.post = PostNew
    /\ blogCall.result.kind = "record"

\* A step that is a call of get_blog_post for the language of the call
\* before it (the clock's step makes blogCall.since grow).
BlogCallStep ==
    /\ blogCall.lang /= None
    /\ blogCall'.lang = blogCall.lang
    /\ blogCall'.since <= blogCall.since

\* The call saw the feeds as the call before it did, or saw none of them.
SameFeeds ==
    \/ blogCall'.hit
    \/ /\ blogCall'.attempts = blogCall.attempts
       /\ blogCall'.hasPost = blogCall.hasPost
       /\ blogCall'.post = blogCall.post

-----------------------------------------------------------------------------
(* Properties of the tagged resource resolver *)

\* An entry that, once trimmed, starts with the tag-marker prefix.
IsMarkerEntry(entry) ==
    /\ entry /= NullRef
    /\ Len(strip(entry)) >= Len(TAG_MARKER)
    /\ SubSeq(strip(entry), 1, Len(TAG_MARKER)) = TAG_MARKER

IsDirectEntry(entry) == entry /= NullRef /\ ~IsMarkerEntry(entry)

MarkerCount(list) == Cardinality({i \in 1..Len(list) : IsMarkerEntry(list[i])})

\* The objects a direct reference designates: the one with that slug, or
\* else the one with that id.
Designated(model, entry) ==
    LET bySlug == {o \in Objects(model) : o.slug = strip(entry)}
        byId == {o \in Objects(model) : o.id = strip(entry)}
    IN {o.name : o \in IF bySlug /= {} THEN bySlug ELSE byId}

\* The objects the direct references of a list designate, in list order.
RECURSIVE DirectObjects(_, _)
DirectObjects(model, list) ==
    IF list = <<>> THEN <<>>
    ELSE LET here == IF IsDirectEntry(Head(list)) /\ Designated(model, Head(list)) /= {}
                     THEN <<CHOOSE n \in Designated(model, Head(list)) : TRUE>>
                     ELSE <<>>
         IN here \o DirectObjects(model, Tail(list))

CreatedAt(model, name) == (CHOOSE o \in Objects(model) : o.name = name).created_at

\* The part of the rendered list that follows the direct objects.
TagPart(model) ==
    SubSeq(show.data[model], Len(DirectObjects(model, show.page[model])) + 1,
           Len(show.data[model]))

\* C15: for each kind, the list passed to rendering starts with the objects
\* of the direct references in front-matter order, wherever the markers
\* stand in the list; after them come the tag-derived objects, each once,
\* newest first; an object reachable both ways stands in both parts.
C15_DirectThenTagDerived ==
    show.pc = "rendered"
       => \A model \in ModelKeys :
             LET list == show.page[model]
                 direct == DirectObjects(model, list)
                 rest == TagPart(model)
                 derived == IF MarkerCount(list) > 0
                            THEN {o.name : o \in {o \in Objects(model) :
                                     /\ ~o.private
                                     /\ o.tags = [i \in 1..MarkerCount(list) |-> TAG_MARKER]}}
                            ELSE {}
             IN /\ Len(show.data[model]) >= Len(direct)
                /\ SubSeq(show.data[model], 1, Len(direct)) = direct
                /\ {rest[i] : i \in 1..Len(rest)} = derived
                /\ Len(rest) = Cardinality(derived)
                /\ \A i, j \in 1..Len(rest) :
                      i < j => CreatedAt(model, rest[i]) > CreatedAt(model, rest[j])

C15_Witness ==
    /\ show.pc = "rendered"
    /\ show.page["datasets"] = <<RefTag, RefSlug, RefId>>
    /\ show.data["datasets"] = <<"D1", "D2", "D2", "D1">>

\* C16: a direct reference that designates no object, by slug or by id, or
\* that is no well-formed id, adds nothing and stops nothing: show_page
\* raises no ValidationError, every page gets rendered with, for each kind,
\* one object per direct reference that designates one; null entries add
\* nothing.
C16_UnresolvableDropped ==
    /\ show.pc /= "ValidationError"
    /\ show.pc = "rendered"
          => \A model \in ModelKeys :
                LET list == show.page[model]
                    kept == {i \in 1..Len(list) :
                                IsDirectEntry(list[i]) /\ Designated(model, list[i]) /= {}}
                    head == SubSeq(show.data[model], 1,
                                   Len(show.data[model]) - Len(TagPart(model)))
                IN /\ Len(head) = Cardinality(kept)
                   /\ \A i \in kept :
                         \E h \in 1..Len(head) : head[h] \in Designated(model, list[i])

C16_Witness ==
    /\ show.pc = "rendered"
    /\ show.page["datasets"] = <<RefBad, NullRef, RefId>>
    /\ show.page["reuses"] = <<RefAbsent>>
    /\ show.data["datasets"] = <<"D2">>
    /\ show.data["reuses"] = <<>>

\* C20: for each kind the tag query is issued at most once, and exactly when
\* an entry of that kind starts, once trimmed, with the tag-marker prefix;
\* its argument has one element per marker entry, each the prefix alone.
C20_TagQueryOncePerKind ==
    show.pc = "rendered"
       => \A model \in ModelKeys :
             LET list == show.page[model]
                 q == show.queries[model]
             IN /\ Len(q) <= 1
                /\ Len(q) = 1 <=> MarkerCount(list) > 0
                /\ Len(q) = 1
                      => /\ Len(q[1].tags) = MarkerCount(list)
                         /\ \A i \in 1..Len(q[1].tags) : q[1].tags[i] = TAG_MARKER

C20_Witness ==
    /\ show.pc = "rendered"
    /\ show.page["datasets"] = <<RefTag, RefSlug, RefTag>>
    /\ show.queries["datasets"] = <<[tags |-> <<TAG_MARKER, TAG_MARKER>>, found |-> <<"D4">>]>>
    /\ show.queries["reuses"] = <<>>

====
